---- MODULE Spec2Model ----
(***************************************************************************)
(* The URL shortener worker of src/src/swagger.ts over the two tables of   *)
(* src/schema.sql.  Every request handler is a sequence of store round     *)
(* trips (the awaits); each round trip is one atomic step, and handlers of *)
(* different requests interleave between their round trips.                *)
(***************************************************************************)
EXTENDS Integers, Sequences, FiniteSets, TLC

VARIABLES
  urls,       \* table urls: set of rows [id, original_url, created_at]
  analytics,  \* table analytics: set of rows, one per recorded redirect
  nextId,     \* AUTOINCREMENT counter of analytics.id
  now,        \* CURRENT_TIMESTAMP of the store
  pc,         \* per handler slot: where the handler is
  req,        \* per handler slot: the handler's local constants
  last,       \* the exchange completed most recently: [req, res]
  issued,     \* history: every id ever inserted into urls
  started     \* history: the number of requests accepted so far

vars == <<urls, analytics, nextId, now, pc, req, last, issued, started>>

-----------------------------------------------------------------------------
(* Bounds of the model *)

(* the last value of the store's clock *)
MaxClock == 1

(* the number of rows stored in analytics at a time *)
MaxEvents == 3

(* the number of requests of a run *)
MaxRequests == 3

(* handler slots: at most two requests are in flight at once *)
Procs == {1, 2}

(* JavaScript undefined / a missing JSON field or header *)
None == "<undefined>"

(* what nanoid() can return: 7 characters of its alphabet *)
NanoIds == {"abc1234", "zz9y8x7"}

(* what a caller can ask for as custom_id: any text, one of them of the     *)
(* shape nanoid() produces                                                   *)
CustomIds == {"abc1234", "promo"}

Ids == NanoIds \cup CustomIds

(* bodies of POST /create: the url field *)
ValidUrls == {"https://a.com", "https://b.com"}

InvalidUrls == {None, "", "a.com"}

(* bodies of POST /create: url with custom_id (None when the field is      *)
(* missing); "" is the empty text, which JavaScript treats as missing       *)
CreateInputs ==
  [url : ValidUrls, custom_id : CustomIds \cup {None}]
    \cup [url : {"https://a.com"}, custom_id : {""}]
    \cup [url : InvalidUrls, custom_id : {None}]
    \cup [url : {"a.com"}, custom_id : {"abc1234"}]

Origin == "https://sho.rt"

(* the request headers GET /:id reads; None is a header that was not sent *)
HeaderInputs ==
  { [ip |-> None, user_agent |-> None, country |-> None, referer |-> None],
    [ip |-> "1.2.3.4", user_agent |-> "curl", country |-> "DE", referer |-> "https://ref"] }

(* the secret of the deployment (Bindings.API_KEY) *)
API_KEY == "secret"

(* authorization headers as the words split(' ') finds; <<>> is no header *)
AuthInputs ==
  { <<>>, <<"Bearer", "">>, <<"Bearer", "wrong">>,
    <<"Basic", "secret">>, <<"Bearer", "secret">>,
    <<"Bearer", "secret", "extra">> }

(* bodies of DELETE /analytics: the ids field, as a JSON value *)
JsonArray(items) == [type |-> "array", items |-> items]

IdsInputs ==
  { [type |-> "undefined"], [type |-> "string", text |-> "abc1234"],
    JsonArray(<<>>), JsonArray(<<"abc1234">>),
    JsonArray(<<"abc1234", "zz9y8x7">>), JsonArray(<<"abc1234", "abc1234">>) }

(* requests to DELETE /analytics, and whether the store executes the batch: *)
(* every credential with one id list, the right credential with every      *)
(* body, and one batch that the store fails                                 *)
PurgeInputs ==
  [auth : AuthInputs, ids : {JsonArray(<<"abc1234">>)}, storeOk : {TRUE}]
    \cup [auth : {<<"Bearer", "secret">>}, ids : IdsInputs, storeOk : {TRUE}]
    \cup [auth : {<<"Bearer", "secret">>}, ids : {JsonArray(<<"abc1234">>)},
          storeOk : {FALSE}]

-----------------------------------------------------------------------------
(* Helpers *)

(* JavaScript truthiness of a string-or-undefined value *)
Truthy(v) == v # None /\ v # ""

(* v || d *)
OrElse(v, d) == IF Truthy(v) THEN v ELSE d

(* the scheme new URL() finds in front of the first ":" ("" when none) *)
SchemeOf(u) ==
  CASE u = "https://a.com" -> "https"
    [] u = "https://b.com" -> "https"
    [] OTHER -> ""

(* new URL(url) without a base throws unless the text starts with a scheme *)
isValidUrl_NeverThrows(url) == TRUE

isValidUrl(url) == SchemeOf(url) # ""

(* SELECT id FROM urls WHERE id = ? *)
RowsById_NoWhere(id) == urls

RowsById(id) == {r \in urls : r.id = id}

(* SELECT id FROM urls WHERE original_url = ? *)
RowsByUrl_WrongColumn(url) == {r \in urls : r.id = url}

RowsByUrl_EverIssued(url) ==
  {[id |-> i, original_url |-> url, created_at |-> 0] : i \in issued}

RowsByUrl(url) == {r \in urls : r.original_url = url}

Text(status, msg) == [status |-> status, text |-> msg]

(* c.json({ error: 'Unauthorized: Missing or invalid token' }, 401) *)
UnauthorizedJson == [status |-> 401, error |-> "Unauthorized: Missing or invalid token"]

ShortUrl(id) == <<Origin, "/", id>>

CreateJson(id, existing) ==
  [status |-> 200, short_url |-> ShortUrl(id), existing |-> existing]

Idle == [op |-> "none"]

CreateReq(url, custom_id) == [op |-> "create", url |-> url, custom_id |-> custom_id]

RedirectReq(id, headers) == [op |-> "redirect", id |-> id, headers |-> headers]

PurgeReq(auth, ids) == [op |-> "purge", auth |-> auth, ids |-> ids]

(* authHeader && authHeader.startsWith('Bearer ') *)
HasBearer(auth) == Len(auth) >= 2 /\ auth[1] = "Bearer"

(* authHeader.split(' ')[1] *)
KeyOf(auth) == auth[2]

(* Array.isArray(ids) *)
IsArray(v) == v.type = "array"

(* the values bound to the placeholders of IN (?, ?, ...) *)
Bound_FirstOnly(ids) == {ids.items[i] : i \in 1..1}

Bound(ids) == {ids.items[i] : i \in 1..Len(ids.items)}

-----------------------------------------------------------------------------
(* A store the worker can find when it starts: empty, or holding what      *)
(* earlier runs left (two creates and one redirect through each of them).   *)
SeedUrls ==
  { [id |-> "abc1234", original_url |-> "https://a.com", created_at |-> 0],
    [id |-> "promo", original_url |-> "https://b.com", created_at |-> 0] }

SeedAnalytics ==
  { [id |-> 1, short_id |-> "abc1234", ip |-> "1.2.3.4", user_agent |-> "curl",
     country_code |-> "DE", referrer |-> "https://ref", timestamp |-> 0],
    [id |-> 2, short_id |-> "promo", ip |-> "", user_agent |-> "",
     country_code |-> "", referrer |-> "", timestamp |-> 0] }

Init ==
  /\ \/ urls = {} /\ analytics = {} /\ nextId = 1 /\ issued = {}
     \/ /\ urls = SeedUrls
        /\ analytics = SeedAnalytics
        /\ nextId = 3
        /\ issued = {"abc1234", "promo"}
  /\ now = 0
  /\ pc = [p \in Procs |-> "idle"]
  /\ req = [p \in Procs |-> Idle]
  /\ last = [req |-> Idle, res |-> [status |-> 0]]
  /\ started = 0

(* the store's clock advances *)
Tick ==
  /\ now < MaxClock
  /\ now' = now + 1
  /\ UNCHANGED <<urls, analytics, nextId, pc, req, last, issued, started>>

(* a new request is accepted into the lowest free handler slot *)
Accept(p) ==
  /\ pc[p] = "idle"
  /\ \A q \in Procs : q < p => pc[q] # "idle"
  /\ started < MaxRequests
  /\ started' = started + 1

Respond(p, request, r) ==
  /\ last' = [req |-> request, res |-> r]
  /\ pc' = [pc EXCEPT ![p] = "idle"]
  /\ req' = [req EXCEPT ![p] = Idle]

Await(p, label, locals) ==
  /\ pc' = [pc EXCEPT ![p] = label]
  /\ req' = [req EXCEPT ![p] = locals]
  /\ UNCHANGED last

(* exists: SELECT id FROM urls WHERE id = ? found a row *)
CustomIdInUse_WrongColumn(custom_id) == RowsByUrl(custom_id) # {}

CustomIdInUse(custom_id) == RowsById(custom_id) # {}

(* POST /create up to its first round trip: validation and the lookup *)
CreateLookup_DedupAfterCustomId(p, url, custom_id) ==
  /\ Accept(p)
  /\ UNCHANGED <<urls, analytics, nextId, now, issued>>
  /\ IF ~Truthy(url) \/ ~isValidUrl(url)
       THEN Respond(p, CreateReq(url, custom_id), Text(400, "Missing or invalid url"))
       ELSE IF Truthy(custom_id) /\ CustomIdInUse(custom_id)
         THEN Respond(p, CreateReq(url, custom_id), Text(409, "Custom ID already in use"))
         ELSE IF RowsByUrl(url) # {}
                THEN \E existing \in RowsByUrl(url) :
                       Respond(p, CreateReq(url, custom_id), CreateJson(existing.id, TRUE))
                ELSE Await(p, "create_insert", CreateReq(url, custom_id))

CreateLookup(p, url, custom_id) ==
  /\ Accept(p)
  /\ UNCHANGED <<urls, analytics, nextId, now, issued>>
  /\ IF ~Truthy(url) \/ ~isValidUrl(url)
       THEN Respond(p, CreateReq(url, custom_id), Text(400, "Missing or invalid url"))
       ELSE IF Truthy(custom_id)
         THEN IF CustomIdInUse(custom_id)
                THEN Respond(p, CreateReq(url, custom_id), Text(409, "Custom ID already in use"))
                ELSE Await(p, "create_insert", CreateReq(url, custom_id))
         ELSE IF RowsByUrl(url) # {}
                THEN \E existing \in RowsByUrl(url) :
                       Respond(p, CreateReq(url, custom_id), CreateJson(existing.id, TRUE))
                ELSE Await(p, "create_insert", CreateReq(url, custom_id))

(* urls.id is the PRIMARY KEY: an INSERT of a stored id is rejected *)
PrimaryKeyFree_NoConstraint(id) == TRUE

PrimaryKeyFree(id) == RowsById(id) = {}

(* the row INSERT INTO urls (id, original_url) VALUES (?, ?) adds *)
UrlRow_SwappedBinds(id, url) == [id |-> url, original_url |-> id, created_at |-> now]

UrlRow(id, url) == [id |-> id, original_url |-> url, created_at |-> now]

(* POST /create from the id choice to the response, were the dedup lookup   *)
(* and the insert one statement of the store                                *)
CreateInsert_DedupInInsert(p, nano, storeOk) ==
  /\ pc[p] = "create_insert"
  /\ LET id == OrElse(req[p].custom_id, nano) IN
       IF ~Truthy(req[p].custom_id) /\ RowsByUrl(req[p].url) # {}
         THEN /\ UNCHANGED <<urls, issued>>
              /\ \E existing \in RowsByUrl(req[p].url) :
                   Respond(p, req[p], CreateJson(existing.id, TRUE))
         ELSE IF storeOk /\ PrimaryKeyFree(id)
           THEN /\ urls' = urls \cup {UrlRow(id, req[p].url)}
                /\ issued' = issued \cup {id}
                /\ Respond(p, req[p], CreateJson(id, FALSE))
           ELSE /\ UNCHANGED <<urls, issued>>
                /\ Respond(p, req[p], Text(500, "Internal Server Error"))
  /\ UNCHANGED <<analytics, nextId, now, started>>

(* POST /create from the id choice to the response; nano is what nanoid()    *)
(* returns; storeOk is FALSE when the store fails the statement for a       *)
(* reason of its own, which the handler cannot tell from a key violation    *)
CreateInsert(p, nano, storeOk) ==
  /\ pc[p] = "create_insert"
  /\ LET id == OrElse(req[p].custom_id, nano) IN
       IF storeOk /\ PrimaryKeyFree(id)
         THEN /\ urls' = urls \cup {UrlRow(id, req[p].url)}
              /\ issued' = issued \cup {id}
              /\ Respond(p, req[p], CreateJson(id, FALSE))
         ELSE /\ UNCHANGED <<urls, issued>>
              /\ Respond(p, req[p], Text(500, "Internal Server Error"))
  /\ UNCHANGED <<analytics, nextId, now, started>>

(* GET /:id up to its first round trip: the lookup *)
RedirectLookup(p, id, headers) ==
  /\ Accept(p)
  /\ UNCHANGED <<urls, analytics, nextId, now, issued>>
  /\ IF RowsById(id) = {}
       THEN Respond(p, RedirectReq(id, headers), Text(404, "Not found"))
       ELSE \E result \in RowsById(id) :
              Await(p, "redirect_insert",
                    [op |-> "redirect", id |-> id,
                     original_url |-> result.original_url, headers |-> headers])

(* the row INSERT INTO analytics (short_id, ip, user_agent, country_code,    *)
(* referrer) adds                                                            *)
ClickRow_SwappedBinds(id, headers) ==
  [id |-> nextId, short_id |-> id,
   ip |-> OrElse(headers.ip, ""),
   user_agent |-> OrElse(headers.user_agent, ""),
   country_code |-> OrElse(headers.referer, ""),
   referrer |-> OrElse(headers.country, ""),
   timestamp |-> now]

ClickRow(id, headers) ==
  [id |-> nextId, short_id |-> id,
   ip |-> OrElse(headers.ip, ""),
   user_agent |-> OrElse(headers.user_agent, ""),
   country_code |-> OrElse(headers.country, ""),
   referrer |-> OrElse(headers.referer, ""),
   timestamp |-> now]

(* GET /:id from the analytics insert to the response *)
RedirectInsert_FireAndForget(p, storeOk) ==
  /\ pc[p] = "redirect_insert"
  /\ Cardinality(analytics) < MaxEvents
  /\ IF storeOk
       THEN /\ analytics' = analytics \cup {ClickRow(req[p].id, req[p].headers)}
            /\ nextId' = nextId + 1
       ELSE UNCHANGED <<analytics, nextId>>
  /\ Respond(p, RedirectReq(req[p].id, req[p].headers), [status |-> 302, location |-> req[p].original_url])
  /\ UNCHANGED <<urls, now, issued, started>>

RedirectInsert(p, storeOk) ==
  /\ pc[p] = "redirect_insert"
  /\ Cardinality(analytics) < MaxEvents
  /\ IF storeOk
       THEN /\ analytics' = analytics \cup {ClickRow(req[p].id, req[p].headers)}
            /\ nextId' = nextId + 1
            /\ Respond(p, RedirectReq(req[p].id, req[p].headers), [status |-> 302, location |-> req[p].original_url])
       ELSE /\ UNCHANGED <<analytics, nextId>>
            /\ Respond(p, RedirectReq(req[p].id, req[p].headers), Text(500, "Internal Server Error"))
  /\ UNCHANGED <<urls, now, issued, started>>

(* DB.batch([DELETE FROM analytics WHERE short_id IN (...),                  *)
(*           DELETE FROM urls WHERE id IN (...)]): one transaction           *)
Batch_FirstStatementOnly(S) ==
  /\ analytics' = {r \in analytics : r.short_id \notin S}
  /\ urls' = urls

Batch(S) ==
  /\ analytics' = {r \in analytics : r.short_id \notin S}
  /\ urls' = {r \in urls : r.id \notin S}

(* !Array.isArray(ids) || ids.length === 0 *)
InvalidBody_NoLengthTest(ids) == ~IsArray(ids)

InvalidBody(ids) == ~IsArray(ids) \/ Len(ids.items) = 0

(* c.json({ success: true, ids }) *)
PurgeJson_StoredOnly(ids) ==
  [status |-> 200, success |-> TRUE,
   ids |-> SelectSeq(ids.items, LAMBDA x : RowsById(x) # {})]

PurgeJson(ids) == [status |-> 200, success |-> TRUE, ids |-> ids.items]

(* DELETE /analytics: one round trip *)
Purge(p, auth, ids, storeOk) ==
  /\ Accept(p)
  /\ UNCHANGED <<nextId, now, issued>>
  /\ IF ~HasBearer(auth)
       THEN /\ Respond(p, PurgeReq(auth, ids), UnauthorizedJson)
            /\ UNCHANGED <<urls, analytics>>
       ELSE IF KeyOf(auth) # API_KEY
         THEN /\ Respond(p, PurgeReq(auth, ids), Text(401, "Unauthorized"))
              /\ UNCHANGED <<urls, analytics>>
         ELSE IF InvalidBody(ids)
           THEN /\ Respond(p, PurgeReq(auth, ids), Text(400, "Invalid request body"))
                /\ UNCHANGED <<urls, analytics>>
           ELSE IF storeOk
             THEN /\ Batch(Bound(ids))
                  /\ Respond(p, PurgeReq(auth, ids), PurgeJson(ids))
             ELSE /\ UNCHANGED <<urls, analytics>>
                  /\ Respond(p, PurgeReq(auth, ids), Text(500, "Internal Server Error"))

-----------------------------------------------------------------------------
(* The analytics API: GET /analytics and GET /analytics/:id *)

(* JavaScript numbers, as far as parseInt makes them: an integer or NaN *)
Num(n) == [nan |-> FALSE, val |-> n]

NaN == [nan |-> TRUE, val |-> 0]

(* parseInt(s): the integer in front of the text, NaN when there is none *)
ParseInt(s) ==
  CASE s = "0" -> Num(0)
    [] s = "1" -> Num(1)
    [] s = "2" -> Num(2)
    [] s = "3" -> Num(3)
    [] s = "50" -> Num(50)
    [] s = "600" -> Num(600)
    [] s = "-1" -> Num(0 - 1)
    [] s = "2.5" -> Num(2)
    [] s = "1x" -> Num(1)
    [] OTHER -> NaN

(* Math.max and Math.min: NaN when an argument is NaN *)
MathMax(a, b) ==
  IF a.nan \/ b.nan THEN NaN ELSE IF a.val >= b.val THEN a ELSE b

MathMin(a, b) ==
  IF a.nan \/ b.nan THEN NaN ELSE IF a.val <= b.val THEN a ELSE b

(* String.prototype.toLowerCase *)
ToLowerCase(s) ==
  CASE s = "ASC" -> "asc"
    [] s = "Asc" -> "asc"
    [] s = "DESC" -> "desc"
    [] OTHER -> s

(* query strings of GET /analytics; None is a parameter that was not sent *)
Query(page, limit, sort) == [page |-> page, limit |-> limit, sort |-> sort]

QueryInputs ==
  { Query(None, None, None),
    Query("1", "1", "asc"), Query("2", "1", "ASC"), Query("3", "1", "asc"),
    Query("-1", "0", "up"), Query("", "600", ""), Query("2.5", "1x", "DESC"),
    Query("abc", None, None), Query(None, "abc", None) }

(* Math.max(1, parseInt(c.req.query('page') || '1')) *)
PageOf(q) == MathMax(Num(1), ParseInt(OrElse(q.page, "1")))

(* Math.max(1, Math.min(parseInt(c.req.query('limit') || '50'), 500)) *)
LimitOf(q) ==
  MathMax(Num(1), MathMin(ParseInt(OrElse(q.limit, "50")), Num(500)))

(* (c.req.query('sort') || 'desc').toLowerCase() === 'asc' ? 'ASC' : 'DESC' *)
SortOf(q) == IF ToLowerCase(OrElse(q.sort, "desc")) = "asc" THEN "ASC" ELSE "DESC"

(* (page - 1) * limit *)
OffsetOf(page, limit) ==
  IF page.nan \/ limit.nan THEN NaN ELSE Num((page.val - 1) * limit.val)

(* SELECT COUNT(DISTINCT short_id) AS total FROM analytics *)
CountDistinct_JoinedOnly ==
  Cardinality({e.short_id : e \in {a \in analytics : RowsById(a.short_id) # {}}})

CountDistinct == Cardinality({e.short_id : e \in analytics})

(* TEXT values in the order of SQLite's BINARY collation *)
TextOrder == <<"", "1.2.3.4", "DE", "curl", "https://ref">>

TextRank(s) == CHOOSE i \in 1..Len(TextOrder) : TextOrder[i] = s

(* MAX over TEXT values, MAX and MIN over timestamps *)
MaxText(S) == CHOOSE s \in S : \A t \in S : TextRank(t) <= TextRank(s)

MaxOf(S) == CHOOSE x \in S : \A y \in S : y <= x

MinOf(S) == CHOOSE x \in S : \A y \in S : x <= y

(* FROM analytics AS a1 JOIN urls AS u ON a1.short_id = u.id *)
Joined == {<<a, u>> \in analytics \X urls : a.short_id = u.id}

(* GROUP BY a1.short_id, u.original_url *)
Groups == {<<j[1].short_id, j[2].original_url>> : j \in Joined}

GroupEvents(g) ==
  {j[1] : j \in {k \in Joined : k[1].short_id = g[1] /\ k[2].original_url = g[2]}}

(* SELECT MAX(timestamp) FROM analytics AS a2 WHERE a2.short_id = a1.short_id *)
LatestOf(short_id) ==
  MaxOf({a2.timestamp : a2 \in {e \in analytics : e.short_id = short_id}})

(* MAX(CASE WHEN timestamp = (...) THEN referrer ELSE NULL END) *)
LatestReferrer_AnyEvent(g) == MaxText({e.referrer : e \in GroupEvents(g)})

LatestReferrer(g) ==
  MaxText({e.referrer : e \in {x \in GroupEvents(g) : x.timestamp = LatestOf(g[1])}})

(* MAX(country_code) *)
CountryCode_OfLatest(g) ==
  MaxText({e.country_code : e \in {x \in GroupEvents(g) : x.timestamp = LatestOf(g[1])}})

CountryCode(g) == MaxText({e.country_code : e \in GroupEvents(g)})

(* COUNT of the rows of the group: click_count *)
ClickCount_Distinct(g) == Cardinality({e.timestamp : e \in GroupEvents(g)})

ClickCount(g) == Cardinality(GroupEvents(g))

(* the select list of the grouped query *)
GroupRow(g) ==
  [short_id |-> g[1],
   original_url |-> g[2],
   click_count |-> ClickCount(g),
   last_clicked |-> MaxOf({e.timestamp : e \in GroupEvents(g)}),
   first_clicked |-> MinOf({e.timestamp : e \in GroupEvents(g)}),
   latest_referrer |-> LatestReferrer(g),
   country_code |-> CountryCode(g)]

GroupRows == {GroupRow(g) : g \in Groups}

(* the sequences that hold each element of S once *)
Perms(S) ==
  {s \in [1..Cardinality(S) -> S] : \A i, j \in 1..Cardinality(S) : s[i] = s[j] => i = j}

(* ORDER BY last_clicked ASC | DESC: rows of equal last_clicked come in an  *)
(* order the store chooses                                                   *)
OrderBy_Descending(rows, sort) ==
  {s \in Perms(rows) : \A i, j \in 1..Len(s) :
     i < j => s[i].last_clicked >= s[j].last_clicked}

OrderBy(rows, sort) ==
  {s \in Perms(rows) : \A i, j \in 1..Len(s) :
     i < j => IF sort = "ASC" THEN s[i].last_clicked <= s[j].last_clicked
                              ELSE s[i].last_clicked >= s[j].last_clicked}

(* LIMIT ? OFFSET ?: a negative limit is no limit, a negative offset is 0 *)
LimitOffset(s, limit, offset) ==
  LET skip == IF offset < 0 THEN 0 ELSE offset
      to == IF limit < 0 \/ skip + limit > Len(s) THEN Len(s) ELSE skip + limit
  IN SubSeq(s, skip + 1, to)

ListReq(auth, query) == [op |-> "list", auth |-> auth, query |-> query]

(* c.json({ page, limit, sort, total: totalResult?.total || 0, data }) *)
ListJson(page, limit, sort, total, data) ==
  [status |-> 200, page |-> page, limit |-> limit, sort |-> sort,
   total |-> total, data |-> data]

(* requests to GET /analytics: every credential with one query, the right  *)
(* credential with every query                                              *)
ListInputs ==
  [auth : AuthInputs, query : {Query(None, None, None)}]
    \cup [auth : {<<"Bearer", "secret">>}, query : QueryInputs]

(* GET /analytics up to its first round trip: the credential, the query     *)
(* parameters and the total                                                 *)
ListTotal(p, auth, query) ==
  /\ Accept(p)
  /\ UNCHANGED <<urls, analytics, nextId, now, issued>>
  /\ IF ~HasBearer(auth)
       THEN Respond(p, ListReq(auth, query), UnauthorizedJson)
       ELSE IF KeyOf(auth) # API_KEY
         THEN Respond(p, ListReq(auth, query), Text(401, "Unauthorized"))
         ELSE Await(p, "list_rows",
                    [op |-> "list", auth |-> auth, query |-> query,
                     page |-> PageOf(query), limit |-> LimitOf(query),
                     sort |-> SortOf(query),
                     offset |-> OffsetOf(PageOf(query), LimitOf(query)),
                     total |-> CountDistinct])

(* GET /analytics from the grouped query to the response; a statement whose *)
(* LIMIT or OFFSET is not an integer is rejected by the store, and the      *)
(* handler, which catches nothing, answers 500                              *)
ListRows(p) ==
  /\ pc[p] = "list_rows"
  /\ UNCHANGED <<urls, analytics, nextId, now, issued, started>>
  /\ IF req[p].limit.nan \/ req[p].offset.nan
       THEN Respond(p, ListReq(req[p].auth, req[p].query),
                    Text(500, "Internal Server Error"))
       ELSE \E s \in OrderBy(GroupRows, req[p].sort) :
              Respond(p, ListReq(req[p].auth, req[p].query),
                      ListJson(req[p].page.val, req[p].limit.val, req[p].sort,
                               req[p].total,
                               LimitOffset(s, req[p].limit.val, req[p].offset.val)))

(* JSON null *)
Null == "<null>"

(* the most rows GET /analytics/:id selects *)
DetailLimit == 1000

DetailReq(auth, id) == [op |-> "detail", auth |-> auth, id |-> id]

(* SELECT original_url FROM urls WHERE id = ?, .first(): the row or nothing *)
FirstUrl(id) ==
  IF RowsById(id) = {} THEN None ELSE (CHOOSE r \in RowsById(id) : TRUE).original_url

(* FROM analytics WHERE short_id = ? *)
RowsByShortId(id) == {e \in analytics : e.short_id = id}

(* SELECT timestamp, ip, user_agent, referrer, country_code: the rows the   *)
(* query selects, and how many events give the same row                     *)
DetailRow(e) ==
  [timestamp |-> e.timestamp, ip |-> e.ip, user_agent |-> e.user_agent,
   referrer |-> e.referrer, country_code |-> e.country_code]

Selected(id) == {DetailRow(e) : e \in RowsByShortId(id)}

CopiesOf(r, id) == Cardinality({e \in RowsByShortId(id) : DetailRow(e) = r})

(* ORDER BY timestamp DESC: every selected row as often as it was selected, *)
(* rows of equal timestamp in an order the store chooses                    *)
OrderByTimestampDesc(id) ==
  LET n == Cardinality(RowsByShortId(id))
  IN {s \in [1..n -> Selected(id)] :
        /\ \A i \in 1..(n - 1) : s[i].timestamp >= s[i + 1].timestamp
        /\ \A r \in Selected(id) : Cardinality({i \in 1..n : s[i] = r}) = CopiesOf(r, id)}

(* c.json({ id, original_url: urlResult?.original_url || null,               *)
(*          click_count: result.results.length, analytics: result.results }) *)
DetailJson_CountStored(id, original_url, results) ==
  [status |-> 200, id |-> id, original_url |-> OrElse(original_url, Null),
   click_count |-> Cardinality(RowsByShortId(id)), analytics |-> results]

DetailJson(id, original_url, results) ==
  [status |-> 200, id |-> id, original_url |-> OrElse(original_url, Null),
   click_count |-> Len(results), analytics |-> results]

(* requests to GET /analytics/:id: every credential with one id, the right *)
(* credential with every id                                                 *)
DetailInputs ==
  [auth : AuthInputs, id : {"abc1234"}]
    \cup [auth : {<<"Bearer", "secret">>}, id : {"abc1234", "promo", "zz9y8x7"}]

(* GET /analytics/:id up to its first round trip: the credential and the    *)
(* lookup of the UrlRecord                                                  *)
DetailLookup(p, auth, id) ==
  /\ Accept(p)
  /\ UNCHANGED <<urls, analytics, nextId, now, issued>>
  /\ IF ~HasBearer(auth)
       THEN Respond(p, DetailReq(auth, id), UnauthorizedJson)
       ELSE IF KeyOf(auth) # API_KEY
         THEN Respond(p, DetailReq(auth, id), Text(401, "Unauthorized"))
         ELSE Await(p, "detail_rows",
                    [op |-> "detail", auth |-> auth, id |-> id,
                     original_url |-> FirstUrl(id)])

(* GET /analytics/:id from the events query to the response *)
DetailRows_Consuming(p) ==
  /\ pc[p] = "detail_rows"
  /\ analytics' = {e \in analytics : e.short_id # req[p].id}
  /\ UNCHANGED <<urls, nextId, now, issued, started>>
  /\ \E s \in OrderByTimestampDesc(req[p].id) :
       Respond(p, DetailReq(req[p].auth, req[p].id),
               DetailJson(req[p].id, req[p].original_url,
                          LimitOffset(s, DetailLimit, 0)))

DetailRows(p) ==
  /\ pc[p] = "detail_rows"
  /\ UNCHANGED <<urls, analytics, nextId, now, issued, started>>
  /\ \E s \in OrderByTimestampDesc(req[p].id) :
       Respond(p, DetailReq(req[p].auth, req[p].id),
               DetailJson(req[p].id, req[p].original_url,
                          LimitOffset(s, DetailLimit, 0)))

Next ==
  \/ Tick
  \/ \E p \in Procs, b \in CreateInputs : CreateLookup(p, b.url, b.custom_id)
  \/ \E p \in Procs, nano \in NanoIds, storeOk \in BOOLEAN : CreateInsert(p, nano, storeOk)
  \/ \E p \in Procs, id \in Ids, headers \in HeaderInputs : RedirectLookup(p, id, headers)
  \/ \E p \in Procs, storeOk \in BOOLEAN : RedirectInsert(p, storeOk)
  \/ \E p \in Procs, r \in PurgeInputs : Purge(p, r.auth, r.ids, r.storeOk)

Spec == Init /\ [][Next]_vars

(* Requests served one after the other: a request is accepted only when no  *)
(* other request is in flight.                                              *)
NoneInFlight == \A p \in Procs : pc[p] = "idle"

NextSeq ==
  \/ Tick
  \/ \E p \in Procs, b \in CreateInputs :
       NoneInFlight /\ CreateLookup(p, b.url, b.custom_id)
  \/ \E p \in Procs, nano \in NanoIds, storeOk \in BOOLEAN : CreateInsert(p, nano, storeOk)
  \/ \E p \in Procs, id \in Ids, headers \in HeaderInputs :
       NoneInFlight /\ RedirectLookup(p, id, headers)
  \/ \E p \in Procs, storeOk \in BOOLEAN : RedirectInsert(p, storeOk)
  \/ \E p \in Procs, r \in PurgeInputs :
       NoneInFlight /\ Purge(p, r.auth, r.ids, r.storeOk)

SpecSeq == Init /\ [][NextSeq]_vars

-----------------------------------------------------------------------------
(* The analytics API, its requests served one after the other, over a store *)
(* that earlier requests left: no redirect, or MaxEvents redirects, the     *)
(* first through abc1234 and the others through abc1234 or promo, at times  *)
(* up to MaxClock, every other one with all headers sent; the UrlRecord of  *)
(* abc1234 is stored, or was purged while redirects through it were in      *)
(* flight.                                                                  *)
LogEvent(i, short_id, timestamp) ==
  IF i % 2 = 1
    THEN [id |-> i, short_id |-> short_id, ip |-> "1.2.3.4", user_agent |-> "curl",
          country_code |-> "DE", referrer |-> "https://ref", timestamp |-> timestamp]
    ELSE [id |-> i, short_id |-> short_id, ip |-> "", user_agent |-> "",
          country_code |-> "", referrer |-> "", timestamp |-> timestamp]

LogInit ==
  /\ \E k \in {0, MaxEvents} :
       \E f \in [1..k -> {"abc1234", "promo"}], t \in [1..k -> 0..MaxClock] :
         /\ \A i, j \in 1..k : i < j => t[i] <= t[j]
         /\ k > 0 => f[1] = "abc1234"
         /\ analytics = {LogEvent(i, f[i], t[i]) : i \in 1..k}
         /\ nextId = k + 1
         /\ now = IF k = 0 THEN 0 ELSE t[k]

IdleInit ==
  /\ issued = {"abc1234", "promo"}
  /\ pc = [p \in Procs |-> "idle"]
  /\ req = [p \in Procs |-> Idle]
  /\ last = [req |-> Idle, res |-> [status |-> 0]]
  /\ started = 0

InitRead ==
  /\ urls \in {SeedUrls, {u \in SeedUrls : u.id = "promo"}}
  /\ LogInit
  /\ IdleInit

NextRead ==
  \/ \E p \in Procs, r \in ListInputs :
       NoneInFlight /\ ListTotal(p, r.auth, r.query)
  \/ \E p \in Procs : ListRows(p)
  \/ \E p \in Procs, r \in DetailInputs :
       NoneInFlight /\ DetailLookup(p, r.auth, r.id)
  \/ \E p \in Procs : DetailRows(p)
  \/ \E p \in Procs, auth \in AuthInputs :
       NoneInFlight /\ Purge(p, auth, JsonArray(<<"abc1234">>), TRUE)

SpecRead == InitRead /\ [][NextRead]_vars

-----------------------------------------------------------------------------
(* GET /analytics/:id, its requests served one after the other, over the    *)
(* stores above and over a burst: one more redirect than a detail request   *)
(* selects, all through promo, from one client at one time.                 *)
Burst == {LogEvent(2 * i - 1, "promo", 0) : i \in 1..(DetailLimit + 1)}

InitDetail ==
  /\ urls \in {SeedUrls, {u \in SeedUrls : u.id = "promo"}}
  /\ \/ LogInit
     \/ /\ analytics = Burst
        /\ nextId = 2 * DetailLimit + 2
        /\ now = 0
  /\ IdleInit

NextDetail ==
  \/ \E p \in Procs, r \in DetailInputs :
       NoneInFlight /\ DetailLookup(p, r.auth, r.id)
  \/ \E p \in Procs : DetailRows(p)

SpecDetail == InitDetail /\ [][NextDetail]_vars

-----------------------------------------------------------------------------
(* Every operation of the worker, handlers interleaved between their round  *)
(* trips, on a store that executes every statement: creates of both urls    *)
(* without custom_id or as abc1234, redirects and detail requests through   *)
(* the two ids nanoid() can return, purges of abc1234, and the default      *)
(* list request, the last three with the configured secret.                 *)
MixedCreates == [url : ValidUrls, custom_id : {None, "abc1234"}]

MixedHeaders ==
  [ip |-> "1.2.3.4", user_agent |-> "curl", country |-> "DE", referer |-> "https://ref"]

MixedAuth == <<"Bearer", API_KEY>>

NextMixed ==
  \/ Tick
  \/ \E p \in Procs, b \in MixedCreates : CreateLookup(p, b.url, b.custom_id)
  \/ \E p \in Procs, nano \in NanoIds : CreateInsert(p, nano, TRUE)
  \/ \E p \in Procs, id \in NanoIds : RedirectLookup(p, id, MixedHeaders)
  \/ \E p \in Procs : RedirectInsert(p, TRUE)
  \/ \E p \in Procs : Purge(p, MixedAuth, JsonArray(<<"abc1234">>), TRUE)
  \/ \E p \in Procs : ListTotal(p, MixedAuth, Query(None, None, None))
  \/ \E p \in Procs : ListRows(p)
  \/ \E p \in Procs, id \in NanoIds : DetailLookup(p, MixedAuth, id)
  \/ \E p \in Procs : DetailRows(p)

SpecMixed == Init /\ [][NextMixed]_vars

-----------------------------------------------------------------------------
(* Vocabulary of the properties *)

StoredIds == {r.id : r \in urls}

StoredFor(url) == {r \in urls : r.original_url = url}

EventsOf(id) == {e \in analytics : e.short_id = id}

NoCustomId == {None, ""}

(* the metadata a ClickEvent is to carry for request headers h *)
MetaOf(h) ==
  [ip |-> IF h.ip = None THEN "" ELSE h.ip,
   user_agent |-> IF h.user_agent = None THEN "" ELSE h.user_agent,
   country_code |-> IF h.country = None THEN "" ELSE h.country,
   referrer |-> IF h.referer = None THEN "" ELSE h.referer]

(* the credential is the configured secret *)
Authorized(auth) == auth = <<"Bearer", API_KEY>>

(* the ids a purge request names, when its ids value is a list *)
Named(ids) == {x \in Ids : \E i \in 1..Len(ids.items) : ids.items[i] = x}

(* In a step that accepts a request: that request, which the step either    *)
(* answers (last') or hands to the handler's next step (req').              *)
Request ==
  IF \E p \in Procs : pc[p] = "idle" /\ pc'[p] # "idle"
    THEN req'[CHOOSE p \in Procs : pc[p] = "idle" /\ pc'[p] # "idle"]
    ELSE last'.req

(* the step accepts a request of this operation *)
Accepts(op) == started' = started + 1 /\ Request.op = op

(* the step is the last one of handler p, which was at this label *)
Finishes(p, label) == pc[p] = label /\ pc'[p] = "idle"

(* the step answers the list request of handler p with a page *)
ListAnswer(p) == Finishes(p, "list_rows") /\ last'.res.status = 200

(* the short_ids that have at least one ClickEvent *)
ClickedIds == {id \in Ids : EventsOf(id) # {}}

(* the timestamps of the ClickEvents of an id *)
TimesOf(id) == {e.timestamp : e \in EventsOf(id)}

(* the largest timestamp over the ClickEvents of an id *)
LastClickOf(id) == CHOOSE t \in TimesOf(id) : \A u \in TimesOf(id) : u <= t

(* the ClickEvents of an id that carry its largest timestamp *)
NewestOf(id) == {e \in EventsOf(id) : e.timestamp = LastClickOf(id)}

(* the short_ids of the rows of a page *)
IdsOn(data) == {data[i].short_id : i \in 1..Len(data)}

(* the short_ids the list has rows for *)
ListedIds == {id \in ClickedIds : id \in StoredIds}

(* the listed short_ids that come before id in the order of last_clicked,   *)
(* and those that do not come after it                                      *)
Before(id, asc) ==
  {x \in ListedIds : IF asc THEN LastClickOf(x) < LastClickOf(id)
                             ELSE LastClickOf(x) > LastClickOf(id)}

NotAfter(id, asc) ==
  {x \in ListedIds : IF asc THEN LastClickOf(x) <= LastClickOf(id)
                             ELSE LastClickOf(x) >= LastClickOf(id)}

(* data is what an ordering of the listed rows by last_clicked, ascending   *)
(* or descending, holds from offset (page-1)*limit on, limit rows at most   *)
IsSlice(data, asc, page, limit) ==
  LET n == Cardinality(ListedIds)
      offset == (page - 1) * limit
  IN /\ Len(data) = IF n <= offset THEN 0
                     ELSE IF n - offset < limit THEN n - offset ELSE limit
     /\ \A i \in 1..Len(data) :
          /\ data[i].short_id \in ListedIds
          /\ data[i].last_clicked = LastClickOf(data[i].short_id)
          /\ Cardinality(Before(data[i].short_id, asc)) < offset + i
          /\ offset + i <= Cardinality(NotAfter(data[i].short_id, asc))
     /\ \A i, j \in 1..Len(data) :
          i < j => /\ data[i].short_id # data[j].short_id
                   /\ IF asc THEN data[i].last_clicked <= data[j].last_clicked
                             ELSE data[i].last_clicked >= data[j].last_clicked

(* what a detail row shows of a ClickEvent *)
RowOf(e) ==
  [timestamp |-> e.timestamp, ip |-> e.ip, user_agent |-> e.user_agent,
   referrer |-> e.referrer, country_code |-> e.country_code]

(* the spellings of asc *)
AscInAnyCase == {"asc", "asC", "aSc", "aSC", "Asc", "AsC", "ASc", "ASC"}

(* text a comes before text b, or is b, in the store's order of TEXT values *)
TextLeq(a, b) ==
  \E i, j \in 1..Len(TextOrder) : i <= j /\ TextOrder[i] = a /\ TextOrder[j] = b

(* the step issues a response: a handler ends, or a request is answered in  *)
(* the step that accepts it                                                 *)
Responds ==
  \/ \E p \in Procs : pc[p] # "idle" /\ pc'[p] = "idle"
  \/ started' = started + 1 /\ pc' = pc

(* the step issues the response to a request of this operation *)
Answers(op) == Responds /\ last'.req.op = op

(* the identifier at the end of a short_url *)
IdOf(short_url) == short_url[Len(short_url)]

-----------------------------------------------------------------------------
(* C1: a create whose custom_id is the id of a stored UrlRecord, with any   *)
(* valid url (the stored one included), answers 409, goes on to no insert   *)
(* and leaves the table urls as it was.                                     *)
C1_CustomIdInUseIsConflict ==
  [][( /\ Accepts("create")
       /\ Request.url \in ValidUrls
       /\ Request.custom_id \in StoredIds )
       => /\ last' = [req |-> Request, res |-> Text(409, "Custom ID already in use")]
          /\ pc' = pc
          /\ urls' = urls]_vars

(* a 409 was answered to a create that named a stored id and that id's url *)
C1_Witness ==
  /\ last.req.op = "create"
  /\ last.res.status = 409
  /\ \E r \in urls : r.id = last.req.custom_id /\ r.original_url = last.req.url

(* C2: with requests served one after the other, when a create of a url     *)
(* without custom_id has just answered existing=false with id x, the next   *)
(* request, a create of the same url without custom_id, answers             *)
(* existing=true with the same x, writes nothing, and one UrlRecord holds   *)
(* that url.                                                                *)
C2_SameUrlTwice ==
  [][( /\ last.req.op = "create"
       /\ last.req.custom_id \in NoCustomId
       /\ last.res.status = 200
       /\ ~last.res.existing
       /\ Accepts("create")
       /\ Request.url = last.req.url
       /\ Request.custom_id \in NoCustomId )
       => /\ last'.req = Request
          /\ last'.res.status = 200
          /\ last'.res.existing
          /\ last'.res.short_url = last.res.short_url
          /\ pc' = pc
          /\ urls' = urls
          /\ Cardinality({r \in urls' : r.original_url = Request.url}) = 1]_vars

(* the second of two creates of one url was answered existing=true with an  *)
(* id only nanoid() makes, so the first create minted it                     *)
C2_Witness ==
  /\ last.req.op = "create"
  /\ last.req.custom_id \in NoCustomId
  /\ last.res = CreateJson("zz9y8x7", TRUE)
  /\ started = 2
  /\ Cardinality(StoredFor(last.req.url)) = 1

(* C3 as stated: every create without custom_id of a valid url that has no  *)
(* UrlRecord, on a store that executes the insert, answers existing=false   *)
(* with an id never issued before and stores one new UrlRecord under it.    *)
C3_FreshIdNeverIssued ==
  [][\A p \in Procs, nano \in NanoIds :
       ( /\ Finishes(p, "create_insert")
         /\ req[p].custom_id \in NoCustomId
         /\ StoredFor(req[p].url) = {}
         /\ CreateInsert(p, nano, TRUE) )
         => \E x \in Ids \ issued :
              /\ last'.res = CreateJson(x, FALSE)
              /\ \E r \in urls' \ urls :
                   r.id = x /\ r.original_url = req[p].url /\ urls' = urls \cup {r}]_vars

(* C3 as amended: such a create either answers 500 and stores nothing, when *)
(* the generated id is the id of a stored UrlRecord or the store fails the  *)
(* insert, or answers existing=false with an id that no stored UrlRecord    *)
(* has and stores one new UrlRecord under it.                               *)
C3_FreshIdAmongStored ==
  [][\A p \in Procs, nano \in NanoIds, storeOk \in BOOLEAN :
       ( /\ Finishes(p, "create_insert")
         /\ req[p].custom_id \in NoCustomId
         /\ CreateInsert(p, nano, storeOk) )
         => \/ /\ ~storeOk \/ nano \in StoredIds
               /\ last'.res.status = 500
               /\ urls' = urls
            \/ /\ storeOk
               /\ nano \notin StoredIds
               /\ last'.res = CreateJson(nano, FALSE)
               /\ \E r \in urls' \ urls :
                    r.id = nano /\ r.original_url = req[p].url /\ urls' = urls \cup {r}]_vars

(* a create without custom_id was answered existing=false with an id that   *)
(* was issued and purged before: the new UrlRecord is stored under it       *)
C3_Witness ==
  /\ last.req.op = "create"
  /\ last.req.custom_id \in NoCustomId
  /\ last.res = CreateJson("abc1234", FALSE)
  /\ started = 2
  /\ \E r \in urls : r.id = "abc1234" /\ r.original_url = last.req.url
  /\ SeedUrls \cap urls # {}
  /\ SeedAnalytics \cap analytics # {}
  /\ EventsOf("abc1234") = {}

(* C4: whenever the insert of a create violates the uniqueness of urls.id   *)
(* (the id, custom or generated, is stored by the time of the insert), the  *)
(* request answers 409 and the id keeps its one UrlRecord.                  *)
C4_InsertCollisionIsConflict ==
  [][\A p \in Procs, nano \in NanoIds :
       ( /\ Finishes(p, "create_insert")
         /\ OrElse(req[p].custom_id, nano) \in StoredIds
         /\ CreateInsert(p, nano, TRUE) )
         => /\ last'.res.status = 409
            /\ urls' = urls
            /\ Cardinality({r \in urls' : r.id = OrElse(req[p].custom_id, nano)}) = 1]_vars

(* C5: a redirect that finds the UrlRecord of its id goes on to the insert  *)
(* with the original_url it found; when the store executes the insert, one  *)
(* ClickEvent is appended that carries the id and the request's headers     *)
(* ("" for a header that was not sent), no other row is written, and the    *)
(* answer is 302 to that original_url.                                       *)
C5_RedirectRecordsOneClick ==
  [][/\ (Accepts("redirect") /\ Request.id \in StoredIds)
          => \E p \in Procs :
               /\ pc[p] = "idle" /\ pc'[p] = "redirect_insert"
               /\ \E r \in urls : r.id = Request.id
                                   /\ req'[p].original_url = r.original_url
               /\ analytics' = analytics /\ urls' = urls
     /\ \A p \in Procs :
          (Finishes(p, "redirect_insert") /\ RedirectInsert(p, TRUE))
            => /\ last'.res = [status |-> 302, location |-> req[p].original_url]
               /\ \E e \in analytics' \ analytics :
                    /\ analytics' = analytics \cup {e}
                    /\ e.short_id = req[p].id
                    /\ [f \in DOMAIN MetaOf(req[p].headers) |-> e[f]]
                         = MetaOf(req[p].headers)
               /\ Cardinality({e \in analytics' : e.short_id = req[p].id})
                    = Cardinality(EventsOf(req[p].id)) + 1
               /\ \A other \in Ids \ {req[p].id} :
                    {e \in analytics' : e.short_id = other} = EventsOf(other)
               /\ urls' = urls]_vars

(* a redirect with every header sent was answered 302 to the stored url of  *)
(* its id, its ClickEvent is stored beside an older one of that id, and     *)
(* another id has an event too                                              *)
C5_Witness ==
  /\ last.req.op = "redirect"
  /\ last.res.status = 302
  /\ last.req.headers.country = "DE"
  /\ \E r \in urls : r.id = last.req.id /\ r.original_url = last.res.location
  /\ \E e \in EventsOf(last.req.id) : e.id = nextId - 1 /\ e.country_code = "DE"
  /\ Cardinality(EventsOf(last.req.id)) = 2
  /\ \E e \in analytics : e.short_id # last.req.id

(* C6: a redirect for an id that has no UrlRecord answers 404, goes on to   *)
(* no insert, and leaves both tables as they were.                          *)
C6_UnknownIdIsNotFound ==
  [][(Accepts("redirect") /\ Request.id \notin StoredIds)
       => /\ last' = [req |-> Request, res |-> Text(404, "Not found")]
          /\ pc' = pc
          /\ analytics' = analytics
          /\ urls' = urls]_vars

(* a redirect was answered 404 while other ids have UrlRecords and events   *)
C6_Witness ==
  /\ last.req.op = "redirect"
  /\ last.res.status = 404
  /\ last.req.id \notin StoredIds
  /\ urls # {}
  /\ analytics # {}

(* C7: in every state every stored ClickEvent's short_id is the id of a     *)
(* stored UrlRecord.                                                        *)
C7_NoDanglingEvent == \A e \in analytics : e.short_id \in StoredIds

(* C8: an authorized purge of a non-empty id list whose batch the store     *)
(* executes answers 200 and leaves no UrlRecord and no ClickEvent of a      *)
(* named id, and exactly the rows of the other ids.                         *)
C8_PurgeRemovesNamedIdsOnly ==
  [][( /\ Accepts("purge")
       /\ Authorized(Request.auth)
       /\ Request.ids.type = "array" /\ Request.ids.items # <<>>
       /\ \E p \in Procs : Purge(p, Request.auth, Request.ids, TRUE) )
       => /\ last'.res.status = 200
          /\ \A u \in urls' : u.id \notin Named(Request.ids)
          /\ \A e \in analytics' : e.short_id \notin Named(Request.ids)
          /\ \A u \in urls : u.id \notin Named(Request.ids) => u \in urls'
          /\ \A e \in analytics : e.short_id \notin Named(Request.ids) => e \in analytics'
          /\ urls' \subseteq urls
          /\ analytics' \subseteq analytics]_vars

(* a purge of two ids was answered 200; the one of them that had a          *)
(* UrlRecord and an event has neither now; the id it did not name has both  *)
C8_Witness ==
  /\ last.req.op = "purge"
  /\ last.res.status = 200
  /\ Len(last.req.ids.items) = 2
  /\ "abc1234" \in Named(last.req.ids) /\ "abc1234" \in issued
  /\ "abc1234" \notin StoredIds /\ EventsOf("abc1234") = {}
  /\ "promo" \in StoredIds /\ EventsOf("promo") # {}

(* C9: no step deletes the ClickEvents of an id and leaves a UrlRecord of   *)
(* that id, or deletes the UrlRecord of an id and leaves ClickEvents of it: *)
(* the two deletions of a purge are applied together or not at all.         *)
C9_PurgeIsAtomic ==
  [][(analytics' # analytics \/ urls' # urls)
       => \A id \in Ids :
            /\ (\E e \in EventsOf(id) : e \notin analytics')
                 => \A u \in urls' : u.id # id
            /\ (\E u \in urls : u.id = id /\ u \notin urls')
                 => \A e \in analytics' : e.short_id # id]_vars

(* a purge was answered 200 and the id it named, which had a UrlRecord and  *)
(* an event at the start, has neither, while nothing was written since      *)
C9_Witness ==
  /\ last.req.op = "purge"
  /\ last.res.status = 200
  /\ started = 1
  /\ urls = {u \in SeedUrls : u.id # "abc1234"}
  /\ analytics = {e \in SeedAnalytics : e.short_id # "abc1234"}

(* C10: an authorized purge whose ids value is not a list, or is the empty  *)
(* list, answers 400 and leaves both tables as they were.                   *)
C10_EmptyPurgeIsInvalidInput ==
  [][( /\ Accepts("purge")
       /\ Authorized(Request.auth)
       /\ Request.ids.type # "array" \/ Request.ids.items = <<>> )
       => /\ last' = [req |-> Request, res |-> Text(400, "Invalid request body")]
          /\ pc' = pc
          /\ urls' = urls
          /\ analytics' = analytics]_vars

(* a purge with the empty list was answered 400 and the store still holds   *)
(* its UrlRecords and events                                                *)
C10_Witness ==
  /\ last.req.op = "purge"
  /\ last.res.status = 400
  /\ last.req.ids = JsonArray(<<>>)
  /\ urls # {}
  /\ analytics # {}

(* C11: an authorized purge of a non-empty id list none of whose ids has a  *)
(* UrlRecord or a ClickEvent, on a store that executes the batch, answers   *)
(* 200 with success and the list of ids as it was given, and leaves both    *)
(* tables as they were.                                                     *)
C11_PurgeOfUnknownIdsIsNoOp ==
  [][( /\ Accepts("purge")
       /\ Authorized(Request.auth)
       /\ Request.ids.type = "array" /\ Request.ids.items # <<>>
       /\ \A x \in Named(Request.ids) : x \notin StoredIds /\ EventsOf(x) = {}
       /\ \E p \in Procs : Purge(p, Request.auth, Request.ids, TRUE) )
       => /\ last' = [req |-> Request,
                      res |-> [status |-> 200, success |-> TRUE,
                               ids |-> Request.ids.items]]
          /\ pc' = pc
          /\ urls' = urls
          /\ analytics' = analytics]_vars

(* the first request, a purge of two ids on the empty store, was answered   *)
(* 200 with the two ids                                                     *)
C11_Witness ==
  /\ last.req.op = "purge"
  /\ last.res.status = 200
  /\ last.res.ids = <<"abc1234", "zz9y8x7">>
  /\ started = 1
  /\ urls = {}
  /\ analytics = {}

(* C12: when a list request whose one page holds the whole result (page 1,  *)
(* limit at least total) is answered, the rows are one for each short_id    *)
(* that has a ClickEvent, with or without a UrlRecord, and their number is  *)
(* total.                                                                   *)
C12_ListReportsEveryClickedId ==
  [][\A p \in Procs :
       ( /\ ListAnswer(p)
         /\ last'.res.page = 1
         /\ last'.res.limit >= last'.res.total )
         => /\ IdsOn(last'.res.data) = ClickedIds
            /\ Len(last'.res.data) = Cardinality(ClickedIds)
            /\ Len(last'.res.data) = last'.res.total]_vars

(* C13: a list handler that is past its parameters has a limit that is an   *)
(* integer in 1..500, 50 when none was sent, and a page that is an integer  *)
(* of at least 1, 1 when none was sent; a page that was answered holds at   *)
(* most limit rows.                                                         *)
C13_LimitAndPageAreClamped ==
  /\ \A p \in Procs :
       pc[p] = "list_rows"
         => /\ ~req[p].limit.nan /\ req[p].limit.val \in 1..500
            /\ req[p].query.limit = None => req[p].limit.val = 50
            /\ ~req[p].page.nan /\ req[p].page.val >= 1
            /\ req[p].query.page = None => req[p].page.val = 1
  /\ (last.req.op = "list" /\ last.res.status = 200)
       => /\ last.res.limit \in 1..500
          /\ last.res.page >= 1
          /\ Len(last.res.data) <= last.res.limit

(* C14: the total a list handler reads is the number of distinct short_ids  *)
(* over the stored ClickEvents, whatever page, limit and sort were sent,    *)
(* and the answer carries that total, which is that number in the store     *)
(* the answer is made from.                                                 *)
C14_TotalCountsDistinctIds ==
  [][/\ \A p \in Procs :
          (pc[p] = "idle" /\ pc'[p] = "list_rows")
            => req'[p].total = Cardinality(ClickedIds)
     /\ \A p \in Procs :
          ListAnswer(p)
            => /\ last'.res.total = req[p].total
               /\ last'.res.total = Cardinality(ClickedIds)]_vars

(* a list of page 2 with limit 1 was answered with total 2, from a store    *)
(* with events of two ids, one of which has no UrlRecord                    *)
C14_Witness ==
  /\ last.req.op = "list"
  /\ last.res.status = 200
  /\ last.res.page = 2
  /\ last.res.limit = 1
  /\ last.res.total = 2
  /\ Cardinality(ClickedIds) = 2
  /\ \E id \in ClickedIds : id \notin StoredIds

(* C15: in every row of an answered list, click_count is the number of      *)
(* stored ClickEvents of the row's short_id, first_clicked the smallest and *)
(* last_clicked the largest of their timestamps.                            *)
C15_RowCountsAndBounds ==
  [][\A p \in Procs :
       ListAnswer(p)
         => \A i \in 1..Len(last'.res.data) :
              LET row == last'.res.data[i] IN
                /\ EventsOf(row.short_id) # {}
                /\ row.click_count = Cardinality(EventsOf(row.short_id))
                /\ row.last_clicked = LastClickOf(row.short_id)
                /\ row.first_clicked \in TimesOf(row.short_id)
                /\ \A t \in TimesOf(row.short_id) : row.first_clicked <= t]_vars

(* a list was answered with a row of three events, two of them at one time, *)
(* whose first and last click differ                                        *)
C15_Witness ==
  /\ last.req.op = "list"
  /\ last.res.status = 200
  /\ \E i \in 1..Len(last.res.data) :
       /\ last.res.data[i].click_count = 3
       /\ last.res.data[i].first_clicked < last.res.data[i].last_clicked
       /\ Cardinality(EventsOf(last.res.data[i].short_id)) = 3

(* C16 as stated: the page of an answered list is the slice, from offset    *)
(* (page-1)*limit on and of limit rows at most, of the rows ordered by      *)
(* last_clicked, ascending when the sort parameter is asc and descending    *)
(* for every other value; past the end it is empty.                         *)
C16_PageIsSliceSortAscOnly ==
  [][\A p \in Procs :
       ListAnswer(p)
         => IsSlice(last'.res.data, req[p].query.sort = "asc",
                    last'.res.page, last'.res.limit)]_vars

(* C16 as amended: the same, with the order ascending when the sort         *)
(* parameter is asc in any letter case and descending for every other      *)
(* value.                                                                   *)
C16_PageIsSliceOfOrdering ==
  [][\A p \in Procs :
       ListAnswer(p)
         => IsSlice(last'.res.data, req[p].query.sort \in AscInAnyCase,
                    last'.res.page, last'.res.limit)]_vars

(* page 2 of limit 1 with sort ASC was answered with the one row of the     *)
(* later last_clicked of two listed ids                                     *)
C16_Witness ==
  /\ last.req.op = "list"
  /\ last.res.status = 200
  /\ last.req.query = Query("2", "1", "ASC")
  /\ Len(last.res.data) = 1
  /\ Cardinality(ListedIds) = 2
  /\ \E x \in ListedIds : LastClickOf(x) < last.res.data[1].last_clicked

(* C17: in every row of an answered list, latest_referrer is the referrer   *)
(* of a ClickEvent of the row's short_id that carries the largest           *)
(* timestamp of that id: of the one such event when there is one, and of    *)
(* no event with an older timestamp.                                        *)
C17_LatestReferrerIsOfNewestEvent ==
  [][\A p \in Procs :
       ListAnswer(p)
         => \A i \in 1..Len(last'.res.data) :
              LET row == last'.res.data[i] IN
                /\ \E e \in NewestOf(row.short_id) : row.latest_referrer = e.referrer
                /\ \A e \in NewestOf(row.short_id) :
                     NewestOf(row.short_id) = {e} => row.latest_referrer = e.referrer]_vars

(* a list was answered with a row whose one newest event has no referrer    *)
(* while an older event of the id has one: latest_referrer is empty         *)
C17_Witness ==
  /\ last.req.op = "list"
  /\ last.res.status = 200
  /\ \E i \in 1..Len(last.res.data) :
       LET row == last.res.data[i] IN
         /\ Cardinality(NewestOf(row.short_id)) = 1
         /\ row.latest_referrer = ""
         /\ \E e \in EventsOf(row.short_id) :
              e.timestamp < row.last_clicked /\ e.referrer = "https://ref"

(* C18: in every row of an answered list, country_code is the country_code  *)
(* of a ClickEvent of the row's short_id and no ClickEvent of that id, of   *)
(* whatever timestamp, has a larger one.                                    *)
C18_CountryCodeIsLargest ==
  [][\A p \in Procs :
       ListAnswer(p)
         => \A i \in 1..Len(last'.res.data) :
              LET row == last'.res.data[i] IN
                /\ \E e \in EventsOf(row.short_id) : row.country_code = e.country_code
                /\ \A e \in EventsOf(row.short_id) :
                     TextLeq(e.country_code, row.country_code)]_vars

(* a list was answered with a row whose country_code is DE, the value of an *)
(* older event, while the newest event of the id has none                   *)
C18_Witness ==
  /\ last.req.op = "list"
  /\ last.res.status = 200
  /\ \E i \in 1..Len(last.res.data) :
       LET row == last.res.data[i] IN
         /\ row.country_code = "DE"
         /\ \A e \in NewestOf(row.short_id) : e.country_code = ""
         /\ \E e \in EventsOf(row.short_id) :
              e.timestamp < row.last_clicked /\ e.country_code = "DE"

(* C19: the answer of a detail request for an id is 200 with the id; its    *)
(* rows are min(1000, n) of the n stored ClickEvents of that id, no event   *)
(* more often than it is stored, none older than an event left out, newest  *)
(* first; click_count is the number of rows; original_url is the url of the *)
(* stored UrlRecord of the id, null when there is none.                     *)
C19_DetailReturnsNewestEvents ==
  [][\A p \in Procs :
       Finishes(p, "detail_rows")
         => LET res == last'.res
                id == req[p].id
                n == Cardinality(EventsOf(id))
                k == Len(res.analytics)
                Returned(r) == Cardinality({i \in 1..k : res.analytics[i] = r})
                Stored(r) == Cardinality({e \in EventsOf(id) : RowOf(e) = r})
            IN /\ res.status = 200
               /\ res.id = id
               /\ k = IF n < 1000 THEN n ELSE 1000
               /\ res.click_count = k
               /\ \A i \in 1..(k - 1) :
                    res.analytics[i].timestamp >= res.analytics[i + 1].timestamp
               /\ \A r \in {res.analytics[i] : i \in 1..k} : Returned(r) <= Stored(r)
               /\ \A r \in {RowOf(e) : e \in EventsOf(id)} :
                    Returned(r) < Stored(r)
                      => \A i \in 1..k : r.timestamp <= res.analytics[i].timestamp
               /\ res.original_url =
                    IF id \in StoredIds
                      THEN (CHOOSE r \in urls : r.id = id).original_url
                      ELSE Null]_vars

(* a detail of promo was answered with its stored url and 1000 rows while   *)
(* 1001 events of promo are stored                                          *)
C19_Witness ==
  /\ last.req.op = "detail"
  /\ last.res.status = 200
  /\ last.res.id = "promo"
  /\ last.res.original_url = "https://b.com"
  /\ last.res.click_count = 1000
  /\ Len(last.res.analytics) = 1000
  /\ Cardinality(EventsOf("promo")) = 1001

(* C20: a list, detail or purge request whose credential is missing or is   *)
(* not the configured secret is answered 401 in the step that accepts it:   *)
(* the handler goes on to no store round trip, both tables are as they      *)
(* were, and the answer carries nothing of the store.                       *)
C20_UnauthorizedIsRejected ==
  [][( /\ Accepts("list") \/ Accepts("detail") \/ Accepts("purge")
       /\ ~Authorized(Request.auth) )
       => /\ last'.req = Request
          /\ last'.res \in {UnauthorizedJson, Text(401, "Unauthorized")}
          /\ pc' = pc
          /\ urls' = urls
          /\ analytics' = analytics]_vars

(* C21: a create whose url is missing, empty or not an absolute URL, with   *)
(* or without custom_id, is answered 400 in the step that accepts it: the   *)
(* handler goes on to no store round trip and both tables are as they were. *)
C21_InvalidUrlIsRejectedUnread ==
  [][( /\ Accepts("create")
       /\ Request.url \in InvalidUrls )
       => /\ last' = [req |-> Request, res |-> Text(400, "Missing or invalid url")]
          /\ pc' = pc
          /\ urls' = urls
          /\ analytics' = analytics]_vars

(* a 400 was answered to a create of a url without scheme whose custom_id   *)
(* is the id of a stored UrlRecord: the id was not looked up                *)
C21_Witness ==
  /\ last.req.op = "create"
  /\ last.req.url = "a.com"
  /\ last.req.custom_id \in StoredIds
  /\ last.res = Text(400, "Missing or invalid url")

(* C22: every create answered 200, with existing true or false, returns     *)
(* origin + "/" + id where id is the id of the one UrlRecord stored under   *)
(* it at that moment, and that record's original_url is the url of the      *)
(* request; no step but a purge removes or changes a stored UrlRecord; a    *)
(* redirect accepted for an id goes on with the original_url of the id's    *)
(* stored UrlRecord, and its 302 names that original_url as the location.   *)
C22_CreateThenRedirectRoundTrip ==
  [][/\ (Answers("create") /\ last'.res.status = 200)
          => /\ last'.res.short_url = <<Origin, "/", IdOf(last'.res.short_url)>>
             /\ \E r \in urls' :
                  /\ r.id = IdOf(last'.res.short_url)
                  /\ r.original_url = last'.req.url
                  /\ {x \in urls' : x.id = r.id} = {r}
     /\ \A r \in urls : r \in urls' \/ Answers("purge")
     /\ (Accepts("redirect") /\ Request.id \in StoredIds)
          => \E p \in Procs, r \in urls :
               /\ pc[p] = "idle" /\ pc'[p] = "redirect_insert"
               /\ r.id = Request.id
               /\ req'[p].id = Request.id
               /\ req'[p].original_url = r.original_url
     /\ \A p \in Procs :
          (Finishes(p, "redirect_insert") /\ last'.res.status = 302)
            => /\ last'.req.id = req[p].id
               /\ last'.res.location = req[p].original_url]_vars

(* the second request of a run, a redirect through an id that only a create *)
(* without custom_id of this run can have returned, was answered 302 to the *)
(* url of the one UrlRecord stored under that id                            *)
C22_Witness ==
  /\ last.req.op = "redirect"
  /\ last.req.id = "zz9y8x7"
  /\ last.res.status = 302
  /\ started = 2
  /\ \E r \in urls : r.id = "zz9y8x7" /\ r.original_url = last.res.location
  /\ last.res.location \in ValidUrls

(* C23: in every step of create, redirect, list, detail and purge requests  *)
(* that interleave, every stored UrlRecord either stays stored with the     *)
(* same original_url and created_at, as the one record of its id, or is     *)
(* removed, and then the step is the batch of a purge that names its id.    *)
C23_RecordIsImmutableUntilPurged ==
  [][\A r \in urls :
       \/ /\ r \in urls'
          /\ {x \in urls' : x.id = r.id} = {r}
       \/ /\ \A x \in urls' : x.id # r.id
          /\ Answers("purge")
          /\ IsArray(last'.req.ids)
          /\ r.id \in Named(last'.req.ids)]_vars

(* the UrlRecord of an id that a create of this run made is stored with the *)
(* url and time of that create after a redirect through it and a detail     *)
(* request about it, at a later time                                        *)
C23_Witness ==
  /\ last.req.op = "detail"
  /\ last.req.id = "zz9y8x7"
  /\ last.res.status = 200
  /\ started = 3
  /\ now = 1
  /\ EventsOf("zz9y8x7") # {}
  /\ \E r \in urls :
       /\ r.id = "zz9y8x7"
       /\ r.created_at = 0
       /\ r.original_url = last.res.original_url

(* C24: every step that answers a redirect with 302 is the step of the      *)
(* handler's insert and appends the ClickEvent of that id in it; the step   *)
(* of an insert that the store fails appends nothing, answers 500 and ends  *)
(* the handler, which does not try the insert again.                        *)
C24_RedirectAnswersAfterItsEvent ==
  [][/\ (Answers("redirect") /\ last'.res.status = 302)
          => /\ \E p \in Procs : Finishes(p, "redirect_insert") /\ req[p].id = last'.req.id
             /\ \E e \in analytics' \ analytics :
                  /\ e.short_id = last'.req.id
                  /\ e.id = nextId
                  /\ analytics' = analytics \cup {e}
     /\ \A p \in Procs :
          RedirectInsert(p, FALSE)
            => /\ analytics' = analytics
               /\ nextId' = nextId
               /\ last' = [req |-> RedirectReq(req[p].id, req[p].headers),
                           res |-> Text(500, "Internal Server Error")]
               /\ pc'[p] = "idle"
     /\ \A p \in Procs :
          (pc[p] = "redirect_insert" /\ pc'[p] # "redirect_insert")
            => /\ pc'[p] = "idle"
               /\ last'.res.status \in {302, 500}]_vars

(* three requests on the empty store: a create, a redirect through the new  *)
(* id that was answered after its event was stored, and a redirect through  *)
(* it whose insert the store failed: it was answered 500 and the id has the *)
(* one event                                                                *)
C24_Witness ==
  /\ last.req.op = "redirect"
  /\ last.res = Text(500, "Internal Server Error")
  /\ started = 3
  /\ issued = {last.req.id}
  /\ last.req.id \in StoredIds
  /\ nextId = 2
  /\ Cardinality(EventsOf(last.req.id)) = 1

(* C25: the insert of a create without custom_id does not look the url up   *)
(* again: when a UrlRecord of the url has been stored since the handler's   *)
(* dedup lookup, and the generated id is free and the store executes the    *)
(* insert, the create answers existing=false and leaves a second UrlRecord  *)
(* of that url under another id.                                            *)
C25_InsertAfterLookupDuplicates ==
  [][\A p \in Procs, nano \in NanoIds :
       ( /\ Finishes(p, "create_insert")
         /\ req[p].custom_id \in NoCustomId
         /\ StoredFor(req[p].url) # {}
         /\ nano \notin StoredIds
         /\ CreateInsert(p, nano, TRUE) )
         => /\ last' = [req |-> req[p], res |-> CreateJson(nano, FALSE)]
            /\ urls' = urls \cup {[id |-> nano, original_url |-> req[p].url,
                                   created_at |-> now]}
            /\ \E r \in urls : r.original_url = req[p].url /\ r.id # nano
            /\ Cardinality({r \in urls' : r.original_url = req[p].url})
                 = Cardinality(StoredFor(req[p].url)) + 1]_vars

(* two requests on the empty store, both creates of one url: the one        *)
(* answered last, without custom_id, got existing=false and abc1234; the    *)
(* other got zz9y8x7, which only a create without custom_id can store, and  *)
(* so existing=false; both UrlRecords are stored for the url                *)
C25_Witness ==
  /\ started = 2
  /\ last.req.op = "create"
  /\ last.req.custom_id \in NoCustomId
  /\ last.res = CreateJson("abc1234", FALSE)
  /\ urls \cap SeedUrls = {}
  /\ {r.id : r \in StoredFor(last.req.url)} = {"abc1234", "zz9y8x7"}
  /\ Cardinality(urls) = 2

(* C26: a create of a valid url with a custom_id that has no UrlRecord is   *)
(* not answered by its lookup step, whatever UrlRecords hold the url, and   *)
(* goes on to the insert; the insert, when the custom_id still has no       *)
(* UrlRecord and the store executes it, adds the UrlRecord of custom_id and *)
(* the url and answers existing=false with custom_id, whatever nanoid()     *)
(* would return; and no create with a custom_id is answered existing=true.  *)
C26_CustomIdNeverDedups ==
  [][/\ ( /\ Accepts("create")
          /\ Request.url \in ValidUrls
          /\ Truthy(Request.custom_id)
          /\ Request.custom_id \notin StoredIds )
          => /\ \E p \in Procs :
                  /\ pc[p] = "idle" /\ pc'[p] = "create_insert"
                  /\ req'[p] = Request
             /\ last' = last
             /\ urls' = urls
     /\ \A p \in Procs, nano \in NanoIds :
          ( /\ Finishes(p, "create_insert")
            /\ Truthy(req[p].custom_id)
            /\ req[p].custom_id \notin StoredIds
            /\ CreateInsert(p, nano, TRUE) )
            => /\ last' = [req |-> req[p], res |-> CreateJson(req[p].custom_id, FALSE)]
               /\ urls' = urls \cup {[id |-> req[p].custom_id,
                                      original_url |-> req[p].url,
                                      created_at |-> now]}
               /\ urls' # urls
     /\ (Answers("create") /\ Truthy(last'.req.custom_id) /\ last'.res.status = 200)
          => ~last'.res.existing]_vars

(* a create with custom_id promo was answered existing=false with promo     *)
(* while another UrlRecord, stored before, holds the same url: both are     *)
(* stored                                                                   *)
C26_Witness ==
  /\ last.req.op = "create"
  /\ last.req.custom_id = "promo"
  /\ last.res = CreateJson("promo", FALSE)
  /\ now = 1
  /\ \E r \in urls : r.id = "promo" /\ r.original_url = last.req.url /\ r.created_at = 1
  /\ \E r \in urls : r.id # "promo" /\ r.original_url = last.req.url /\ r.created_at = 0

C28_ListAndDetailAreReadOnly ==
  [][( \/ Accepts("list")
       \/ Accepts("detail")
       \/ \E p \in Procs : pc[p] \in {"list_rows", "detail_rows"} /\ pc'[p] # pc[p] )
       => /\ urls' = urls
          /\ analytics' = analytics
          /\ nextId' = nextId]_vars

(* the second request of a run, a detail request about an id that has       *)
(* ClickEvents and no UrlRecord, was answered with the events, and the      *)
(* store holds what it held at the start: the other UrlRecord and           *)
(* MaxEvents ClickEvents                                                    *)
C28_Witness ==
  /\ last.req.op = "detail"
  /\ last.req.id = "abc1234"
  /\ last.res.status = 200
  /\ last.res.click_count > 0
  /\ started = 2
  /\ StoredIds = {"promo"}
  /\ Cardinality(analytics) = MaxEvents
  /\ nextId = MaxEvents + 1

====
